---- MODULE Spec2Model ----
(***************************************************************************)
(* The secret-reveal coordinator of the cross-chain swap glue code:        *)
(*   - the EVM->Solana script            (flow "evm2sol"),                 *)
(*   - the Solana->EVM script            (flow "sol2evm"),                 *)
(*   - POST /api/fusion/swap/execute and FusionService.executeSwap         *)
(*                                        (flow "execute"),                *)
(*   - POST /api/fusion/quote            (flow "quote"),                   *)
(*   - SecretManager.createSecretData    (flow "secretData").              *)
(* The SDK and the relayer are the environment: every SDK call returns or  *)
(* throws nondeterministically, and the relayer answers anything.          *)
(***************************************************************************)
EXTENDS Integers, Sequences, FiniteSets, TLC

\* ---------------------------------------------------------------- bounds
MaxSecrets == 2
MaxFills == 2
MaxPolls == 2

\* ------------------------------------------------------ program constants
pollInterval == 5000
maxAttempts == 120
maxWaitTime == 10 * 60 * 1000

\* ------------------------------------------------------------ JS values
Undefined == "undefined"

\* A request-body field is absent, present but falsy ("" or 0), or truthy.
FieldVals == {"undefined", "empty", "value"}

\* JavaScript's `!v`.
Falsy(v) == v \in {"undefined", "empty"}

QuoteFields ==
  {"srcChainId", "dstChainId", "srcTokenAddress", "dstTokenAddress",
   "amount", "walletAddress"}

SwapFields == QuoteFields \cup {"receiverAddress"}

\* The body field /swap/test-eth-to-solana checks; `amount` only fills in a
\* default and decides nothing.
TestFields == {"solanaReceiver"}

\* What successive randomBytes(32) calls can give, two runs of them: the
\* values of one run differ from each other.
SecretDraws ==
  {<<"0xaa", "0xbb", "0xcc", "0xdd">>, <<"0xbb", "0xaa", "0xdd", "0xcc">>}

ScriptEnvVars(f) ==
  IF f = "evm2sol"
    THEN {"PRIVATE_KEY", "MAKER_ADDRESS", "RECEIVER_ADDRESS", "DEV_PORTAL_API_KEY"}
    ELSE {"SOLANA_PRIVATE_KEY", "SOLANA_MAKER_ADDRESS", "ETH_RECEIVER_ADDRESS",
          "DEV_PORTAL_API_KEY"}

ServiceEnvVars == {"TEST_PRIVATE_KEY", "INCH_API_KEY"}

\* The presets a quote offers.
Presets == {"fast", "slow"}

\* What req.body.preset can be: absent, or the name of a preset other than
\* the route's default.
PresetVals == {Undefined, "slow"}

\* `preset || 'fast'` of the /swap/execute route.
RoutePreset(p) == IF p \in {"undefined", "empty"} THEN "fast" ELSE p

Statuses == {"pending", "executed", "expired", "cancelled"}
Terminal == {"executed", "expired", "cancelled"}

\* ------------------------------------------------------------ SDK: HashLock
hashSecret(s) == <<"keccak256", s>>

getMerkleLeaves(secs) ==
  [i \in 1..Len(secs) |-> <<"leaf", i - 1, hashSecret(secs[i])>>]

forSingleFill(s) == [kind |-> "single", of |-> <<hashSecret(s)>>]

forMultipleFills(leaves) == [kind |-> "multi", of |-> leaves]

NoHashLock == [kind |-> "none", of |-> <<>>]

\* Mutant: every hash is the first secret's.
HashAll_First(secs) == [i \in 1..Len(secs) |-> hashSecret(secs[1])]

\* secrets.map(HashLock.hashSecret)
HashAll(secs) == [i \in 1..Len(secs) |-> hashSecret(secs[i])]

\* secrets[idx] of a JavaScript array: undefined outside 0..length-1.
SecretAt(secs, idx) ==
  IF idx + 1 \in DOMAIN secs THEN secs[idx + 1] ELSE Undefined

\* Mutant: the single-fill lock whatever the number of secrets.
createHashLock_AlwaysSingle(secs) == forSingleFill(SecretAt(secs, 0))

\* The scripts' createHashLock and SecretManager.createHashLock.
createHashLock(secs) ==
  IF Len(secs) > 1
    THEN forMultipleFills(getMerkleLeaves(secs))
    ELSE forSingleFill(SecretAt(secs, 0))

\* The hash-lock selection inlined in FusionService.executeSwap.
executeSwapHashLock(secs) ==
  IF Len(secs) = 1
    THEN forSingleFill(SecretAt(secs, 0))
    ELSE forMultipleFills(getMerkleLeaves(secs))

\* SecretManager.createSecretData, given what generateSecrets drew.
createSecretData(secs) ==
  [secrets |-> secs, secretHashes |-> HashAll(secs), hashLock |-> createHashLock(secs)]

\* Mutant: the position in the response instead of the fill's idx.
IdxesOf_Position(fs) == [i \in 1..Len(fs) |-> i - 1]

\* readyToAcceptSecrets.fills.map(f => f.idx)
IdxesOf(fs) == fs

Range(s) == {s[i] : i \in DOMAIN s}

SeqsUpTo(S, n) == UNION {[1..k -> S] : k \in 0..n}

Min(a, b) == IF a < b THEN a ELSE b


\* ------------------------------------------------------------------ state
VARIABLES
  flow,          \* which program runs
  pc,            \* its position
  env,           \* process.env: variable name -> is it set and non-empty
  body,          \* req.body of the HTTP request: field -> FieldVals
  preset,        \* req.body.preset of /swap/execute
  secretsCount,  \* preset.secretsCount of the quote
  secrets,       \* the generated secrets
  secretHashes,  \* the hashes handed to submitOrder / announceOrder
  hashLock,      \* the hash-lock put in the order
  orderHash,     \* "none" until the relayer accepted the order
  orderFailed,   \* order submission (or the escrow transaction) threw
  txSent,        \* connection.sendTransaction returned a signature
  paramsPreset,  \* params.preset as the route hands it to executeSwap, "none" before
  recommendedPreset, \* quote.recommendedPreset, "none" before the quote
  orderPreset,   \* the preset given to getPreset and createEvmOrder, "none" before
  alreadyShared, \* alreadyShared / submittedSecrets
  fills,         \* idx of the fills of this iteration's ready-fills response
  idxes,         \* the list this iteration walks
  cursor,        \* position in idxes
  attempts,      \* attempts of the Solana->EVM loop
  elapsed,       \* Date.now() - startTime of the backend loop
  polls,         \* getOrderStatus calls made so far
  ev,            \* the SDK call or timer wait made by the last step
  succCount,     \* idx -> submitSecret calls that returned, capped at 2
  waits,         \* poll-interval waits since the last getOrderStatus call, capped at 2
  gap,           \* waits between the last two getOrderStatus calls, -1 before the second
  sawTerminal,   \* a getOrderStatus call returned a terminal status
  polledAfterTerminal, \* the relayer was polled again after that
  reported,      \* every idx some ready-fills response has listed
  failed,        \* every idx for which a submitSecret call threw
  lastStatus,    \* what this iteration's getOrderStatus gave, "none" between iterations
  resp,          \* the HTTP responses sent, in order
  swapError,     \* the error message of executeSwap's {success: false} result
  exitCode,      \* -1 while the script runs, then its exit code
  quoteCalls,    \* sdk.getQuote calls
  svcCalls       \* FusionService.getQuote / executeSwap calls

reqVars == <<flow, env, body, preset>>
presetVars == <<paramsPreset, recommendedPreset, orderPreset>>
orderVars ==
  <<secretsCount, secrets, secretHashes, hashLock, orderHash, orderFailed, txSent, presetVars>>
loopVars == <<alreadyShared, fills, idxes, cursor, attempts, elapsed, polls>>
histVars ==
  <<succCount, waits, gap, sawTerminal, polledAfterTerminal, reported, failed, lastStatus>>
outVars == <<resp, swapError, exitCode, quoteCalls, svcCalls>>
vars == <<reqVars, pc, orderVars, loopVars, ev, histVars, outVars>>

Scripts == {"evm2sol", "sol2evm"}
\* The routes that call FusionService.executeSwap.
SwapFlows == {"execute", "testEthToSolana"}
Flows == Scripts \cup SwapFlows \cup {"quote", "secretData"}

\* Fill indexes the relayer may report: the order's own and one beyond them.
ReadyIdx == 0..MaxSecrets

Ev(op, idx, secret, ok, ms, status) ==
  [op |-> op, idx |-> idx, secret |-> secret, ok |-> ok, ms |-> ms, status |-> status]

NoEv == Ev("none", -1, Undefined, TRUE, 0, "none")

Call(op, ok) == Ev(op, -1, Undefined, ok, 0, "none")

Init ==
  /\ flow \in Flows
  /\ pc = (IF flow \in Scripts THEN "env"
           ELSE IF flow = "secretData" THEN "call" ELSE "validate")
  /\ env \in (IF flow \in Scripts THEN [ScriptEnvVars(flow) -> BOOLEAN]
              ELSE IF flow = "secretData" THEN {<<>>}
              ELSE {e \in [ServiceEnvVars -> BOOLEAN] : e["INCH_API_KEY"]})
  /\ body \in (IF flow = "execute" THEN [SwapFields -> FieldVals]
               ELSE IF flow = "testEthToSolana" THEN [TestFields -> FieldVals]
               ELSE IF flow = "quote" THEN [QuoteFields -> FieldVals]
               ELSE {<<>>})
  /\ preset \in (IF flow = "execute" THEN PresetVals ELSE {Undefined})
  /\ paramsPreset = "none"
  /\ recommendedPreset = "none"
  /\ orderPreset = "none"
  /\ secretsCount = 0
  /\ secrets = <<>>
  /\ secretHashes = <<>>
  /\ hashLock = NoHashLock
  /\ orderHash = "none"
  /\ orderFailed = FALSE
  /\ txSent = FALSE
  /\ alreadyShared = {}
  /\ fills = <<>>
  /\ idxes = <<>>
  /\ cursor = 1
  /\ attempts = 0
  /\ elapsed = 0
  /\ polls = 0
  /\ ev = NoEv
  /\ succCount = [i \in ReadyIdx |-> 0]
  /\ waits = 0
  /\ gap = -1
  /\ sawTerminal = FALSE
  /\ polledAfterTerminal = FALSE
  /\ reported = {}
  /\ failed = {}
  /\ lastStatus = "none"
  /\ resp = <<>>
  /\ swapError = "none"
  /\ exitCode = -1
  /\ quoteCalls = 0
  /\ svcCalls = 0

\* ------------------------------------------------------- the two scripts
\* process.exit(1)
Exit1 == pc' = "done" /\ exitCode' = 1

\* Mutant: the API key is not required.
RequiredEnvMissing_SkipApiKey(f, e) ==
  \E k \in ScriptEnvVars(f) \ {"DEV_PORTAL_API_KEY"} : ~e[k]

\* `!process.env[key]` for some key of requiredEnvVars.
RequiredEnvMissing(f, e) == \E k \in ScriptEnvVars(f) : ~e[k]

\* The requiredEnvVars loop at module load.
S_CheckEnv ==
  /\ flow \in Scripts /\ pc = "env"
  /\ IF RequiredEnvMissing(flow, env)
       THEN Exit1
       ELSE pc' = "initSDK" /\ UNCHANGED exitCode
  /\ ev' = NoEv
  /\ UNCHANGED <<reqVars, orderVars, loopVars, histVars, resp, swapError, quoteCalls, svcCalls>>

\* initializeSDK: the dynamic import resolves or throws.
S_InitializeSDK ==
  /\ flow \in Scripts /\ pc = "initSDK"
  /\ \E ok \in BOOLEAN :
       /\ ev' = Call("import", ok)
       /\ IF ok THEN pc' = "quote" /\ UNCHANGED exitCode ELSE Exit1
  /\ UNCHANGED <<reqVars, orderVars, loopVars, histVars, resp, swapError, quoteCalls, svcCalls>>

\* getQuote of the scripts; a throw reaches main's catch.
S_GetQuote ==
  /\ flow \in Scripts /\ pc = "quote"
  /\ quoteCalls' = quoteCalls + 1
  /\ \E ok \in BOOLEAN :
       /\ ev' = Call("getQuote", ok)
       /\ IF ok
            THEN /\ \E n \in 1..MaxSecrets : secretsCount' = n
                 /\ pc' = "create"
                 /\ UNCHANGED exitCode
            ELSE Exit1 /\ UNCHANGED secretsCount
  /\ UNCHANGED <<reqVars, secrets, secretHashes, hashLock, orderHash, orderFailed, txSent,
                 presetVars, loopVars, histVars, resp, swapError, svcCalls>>

\* generateSecrets(count): count draws of getSecret.
generateSecrets(count) == {SubSeq(d, 1, count) : d \in SecretDraws}

\* Mutant: a failed submission is swallowed and the script goes on.
SubmitOutcome_Swallow(ok, next) ==
  /\ pc' = next
  /\ orderFailed' = ~ok
  /\ orderHash' = (IF ok THEN "0xorder" ELSE orderHash)
  /\ UNCHANGED exitCode

\* How the awaited order submission ends: the relayer's order hash and on to
\* `next`, or a throw that main's catch turns into process.exit(1).
SubmitOutcome(ok, next) ==
  IF ok
    THEN /\ orderHash' = "0xorder" /\ pc' = next
         /\ UNCHANGED <<orderFailed, exitCode>>
    ELSE /\ orderFailed' = TRUE /\ Exit1
         /\ UNCHANGED orderHash

\* createAndSubmitOrder of the EVM->Solana script.
E2S_CreateAndSubmitOrder ==
  /\ flow = "evm2sol" /\ pc = "create"
  /\ \E secs \in generateSecrets(secretsCount), ok \in BOOLEAN :
       /\ secrets' = secs
       /\ secretHashes' = HashAll(secs)
       /\ hashLock' = createHashLock(secs)
       /\ ev' = Call("submitOrder", ok)
       /\ SubmitOutcome(ok, "status")
  /\ UNCHANGED <<reqVars, secretsCount, txSent, presetVars, loopVars, histVars, resp, swapError,
                 quoteCalls, svcCalls>>

\* createAndSubmitOrder of the Solana->EVM script, up to announceOrder.
S2E_AnnounceOrder ==
  /\ flow = "sol2evm" /\ pc = "create"
  /\ \E secs \in generateSecrets(secretsCount), ok \in BOOLEAN :
       /\ secrets' = secs
       /\ secretHashes' = HashAll(secs)
       /\ hashLock' = createHashLock(secs)
       /\ ev' = Call("announceOrder", ok)
       /\ SubmitOutcome(ok, "sendTx")
  /\ UNCHANGED <<reqVars, secretsCount, txSent, presetVars, loopVars, histVars, resp, swapError,
                 quoteCalls, svcCalls>>

\* Mutant: a failed escrow transaction is not noticed.
S2E_SendTransaction_IgnoreFailure ==
  /\ flow = "sol2evm" /\ pc = "sendTx"
  /\ \E ok \in BOOLEAN :
       /\ ev' = Call("sendTransaction", ok)
       /\ txSent' = ok
       /\ pc' = "initialWait"
  /\ UNCHANGED <<reqVars, secretsCount, secrets, secretHashes, hashLock, orderHash,
                 orderFailed, presetVars, loopVars, histVars, outVars>>

\* The rest of createAndSubmitOrder: the escrow transaction on Solana.
S2E_SendTransaction ==
  /\ flow = "sol2evm" /\ pc = "sendTx"
  /\ \E ok \in BOOLEAN :
       /\ ev' = Call("sendTransaction", ok)
       /\ txSent' = ok
       /\ IF ok
            THEN pc' = "initialWait" /\ UNCHANGED <<orderFailed, exitCode>>
            ELSE orderFailed' = TRUE /\ Exit1
  /\ UNCHANGED <<reqVars, secretsCount, secrets, secretHashes, hashLock, orderHash,
                 presetVars, loopVars, histVars, resp, swapError, quoteCalls, svcCalls>>


\* ------------------------------------------------ pieces of the three loops
\* What sdk.getReadyToAcceptSecretFills can do: throw, answer without a fills
\* array, or answer with the idx of each ready fill (repeats and an index
\* beyond the order's secrets included).
ReadyFillsResponses ==
  [kind : {"error", "nofills"}, fills : {<<>>}]
    \cup [kind : {"fills"}, fills : SeqsUpTo(0..secretsCount, MaxFills)]

\* !alreadyShared.has(idx)
NotShared(shared, idx) == idx \notin shared

\* Mutant: the index is not recorded.
AddShared_Forget(shared, idx) == shared

\* alreadyShared.add(idx)
AddShared(shared, idx) == shared \cup {idx}

\* Mutant: the index is recorded whether or not the call returned.
AfterSubmit_RecordOnFailure(shared, idx, ok) == AddShared(shared, idx)

\* `await sdk.submitSecret(...); alreadyShared.add(idx)` inside its try: the
\* add is reached only when the call returned.
AfterSubmit(shared, idx, ok) == IF ok THEN AddShared(shared, idx) ELSE shared

\* secrets[idx], the argument of submitSecret
SecretFor(secs, idx) == SecretAt(secs, idx)

\* An awaited sdk.getOrderStatus(orderHash): it returns status st or throws.
StatusCall(ok, st) ==
  /\ ev' = Ev("getOrderStatus", -1, Undefined, ok, 0, IF ok THEN st ELSE "error")
  /\ polls' = polls + 1
  /\ gap' = IF polls > 0 THEN waits ELSE -1
  /\ waits' = 0
  /\ polledAfterTerminal' = (polledAfterTerminal \/ sawTerminal)
  /\ sawTerminal' = (sawTerminal \/ (ok /\ st \in Terminal))
  /\ lastStatus' = (IF ok THEN st ELSE "error")
  /\ UNCHANGED <<reported, failed>>

\* An awaited sdk.getReadyToAcceptSecretFills(orderHash).
FillsCall(r) ==
  /\ ev' = Ev("getReadyToAcceptSecretFills", -1, Undefined, r.kind # "error", 0, "none")
  /\ polledAfterTerminal' = (polledAfterTerminal \/ sawTerminal)
  /\ reported' = reported \cup Range(r.fills)
  /\ UNCHANGED <<succCount, waits, gap, sawTerminal, failed, lastStatus>>

\* Mutant: a throwing submitSecret ends the walk over the list.
AfterElement_StopOnFailure(ok) ==
  IF ok /\ cursor + 1 <= Len(idxes) THEN "submit" ELSE "wait"

\* Where the `for` goes after one element, the inner catch having swallowed
\* any throw: to the next element, or past the list to the wait.
AfterElement(ok) == IF cursor + 1 > Len(idxes) THEN "wait" ELSE "submit"

\* The body of `for (const idx of idxes)` for the element under the cursor;
\* needSecret is the backend's extra `&& secrets[fill.idx]`.
SubmitStep(needSecret) ==
  LET idx == idxes[cursor]
      sec == SecretFor(secrets, idx)
  IN /\ IF NotShared(alreadyShared, idx) /\ (needSecret => sec # Undefined)
          THEN \E ok \in BOOLEAN :
                 /\ ev' = Ev("submitSecret", idx, sec, ok, 0, "none")
                 /\ alreadyShared' = AfterSubmit(alreadyShared, idx, ok)
                 /\ succCount' = (IF ok
                                    THEN [succCount EXCEPT ![idx] = Min(@ + 1, 2)]
                                    ELSE succCount)
                 /\ failed' = (IF ok THEN failed ELSE failed \cup {idx})
                 /\ pc' = AfterElement(ok)
          ELSE /\ ev' = NoEv
               /\ pc' = AfterElement(TRUE)
               /\ UNCHANGED <<alreadyShared, succCount, failed>>
     /\ cursor' = cursor + 1
     /\ UNCHANGED <<fills, idxes, attempts, elapsed, polls>>
     /\ UNCHANGED <<waits, gap, sawTerminal, polledAfterTerminal, reported, lastStatus>>

\* await setTimeout(pollInterval): the iteration's response is dropped.
WaitCall(ms) ==
  /\ ev' = Ev("wait", -1, Undefined, TRUE, ms, "none")
  /\ waits' = Min(waits + 1, 2)
  /\ fills' = <<>> /\ idxes' = <<>> /\ cursor' = 1
  /\ UNCHANGED <<alreadyShared, polls>>
  /\ lastStatus' = "none"
  /\ UNCHANGED <<succCount, gap, sawTerminal, polledAfterTerminal, reported, failed>>

\* The ready-fills response starts the walk over its idx list, if any.
StartWalk(list) ==
  /\ fills' = list
  /\ idxes' = IdxesOf(list)
  /\ cursor' = 1
  /\ pc' = IF Len(IdxesOf(list)) > 0 THEN "submit" ELSE "wait"

\* -------------------------------------- monitorAndSubmitSecrets, EVM->Solana
\* Mutant: a throwing getOrderStatus lands in the catch of the fills block.
E2S_GetOrderStatus_ErrorSkips ==
  /\ flow = "evm2sol" /\ pc = "status" /\ polls < MaxPolls
  /\ \E ok \in BOOLEAN, st \in Statuses :
       /\ StatusCall(ok, st)
       /\ IF ok /\ st = "executed"
            THEN pc' = "done" /\ exitCode' = 0
            ELSE pc' = (IF ok THEN "fills" ELSE "catch") /\ UNCHANGED exitCode
  /\ UNCHANGED <<reqVars, orderVars, alreadyShared, fills, idxes, cursor, attempts,
                 elapsed, succCount, resp, swapError, quoteCalls, svcCalls>>

\* The first try block of the loop: a throw is logged and the loop goes on to
\* the fills block.
E2S_GetOrderStatus ==
  /\ flow = "evm2sol" /\ pc = "status" /\ polls < MaxPolls
  /\ \E ok \in BOOLEAN, st \in Statuses :
       /\ StatusCall(ok, st)
       /\ IF ok /\ st = "executed"
            THEN pc' = "done" /\ exitCode' = 0
            ELSE pc' = "fills" /\ UNCHANGED exitCode
  /\ UNCHANGED <<reqVars, orderVars, alreadyShared, fills, idxes, cursor, attempts,
                 elapsed, succCount, resp, swapError, quoteCalls, svcCalls>>

E2S_GetReadyFills ==
  /\ flow = "evm2sol" /\ pc = "fills"
  /\ \E r \in ReadyFillsResponses :
       /\ FillsCall(r)
       /\ IF r.kind = "fills"
            THEN StartWalk(r.fills)
            ELSE pc' = "catch" /\ UNCHANGED <<fills, idxes, cursor>>
  /\ UNCHANGED <<reqVars, orderVars, alreadyShared, attempts, elapsed, polls, outVars>>

E2S_SubmitSecret ==
  /\ flow = "evm2sol" /\ pc = "submit"
  /\ SubmitStep(FALSE)
  /\ UNCHANGED <<reqVars, orderVars, outVars>>

E2S_Wait ==
  /\ flow = "evm2sol" /\ pc = "wait"
  /\ WaitCall(pollInterval)
  /\ pc' = "status"
  /\ UNCHANGED <<reqVars, orderVars, attempts, elapsed, outVars>>

\* Mutant: the catch block retries at once.
E2S_CatchWait_NoWait ==
  /\ flow = "evm2sol" /\ pc = "catch"
  /\ pc' = "status"
  /\ ev' = NoEv
  /\ UNCHANGED <<reqVars, orderVars, loopVars, histVars, outVars>>

E2S_CatchWait ==
  /\ flow = "evm2sol" /\ pc = "catch"
  /\ WaitCall(pollInterval)
  /\ pc' = "status"
  /\ UNCHANGED <<reqVars, orderVars, attempts, elapsed, outVars>>

\* -------------------------------------- monitorAndSubmitSecrets, Solana->EVM
S2E_InitialWait ==
  /\ flow = "sol2evm" /\ pc = "initialWait"
  /\ WaitCall(pollInterval)
  /\ pc' = "status"
  /\ UNCHANGED <<reqVars, orderVars, attempts, elapsed, outVars>>

\* Mutant: 'executed' does not end the loop.
S2E_ReturnsOn_NotExecuted(st) == st \in {"expired", "cancelled"}

\* Mutant: only 'executed' ends the loop.
S2E_ReturnsOn_ExecutedOnly(st) == st = "executed"

\* The statuses on which the Solana->EVM loop returns.
S2E_ReturnsOn(st) == st \in {"executed", "expired", "cancelled"}

\* One getOrderStatus round of the Solana->EVM loop.
S2E_PollStatus ==
  /\ flow = "sol2evm" /\ pc = "status"
  /\ \E ok \in BOOLEAN, st \in Statuses :
       /\ StatusCall(ok, st)
       /\ IF ok /\ S2E_ReturnsOn(st)
            THEN pc' = "done" /\ exitCode' = 0
            ELSE pc' = "fills" /\ UNCHANGED exitCode
  /\ UNCHANGED <<reqVars, orderVars, alreadyShared, fills, idxes, cursor, attempts,
                 elapsed, succCount, resp, swapError, quoteCalls, svcCalls>>

S2E_GetOrderStatus == polls < MaxPolls /\ S2E_PollStatus

S2E_GetReadyFills ==
  /\ flow = "sol2evm" /\ pc = "fills"
  /\ \E r \in ReadyFillsResponses :
       /\ FillsCall(r)
       /\ CASE r.kind = "fills" -> StartWalk(r.fills)
            [] r.kind = "nofills" -> pc' = "wait" /\ UNCHANGED <<fills, idxes, cursor>>
            [] OTHER -> pc' = "catch" /\ UNCHANGED <<fills, idxes, cursor>>
  /\ UNCHANGED <<reqVars, orderVars, alreadyShared, attempts, elapsed, polls, outVars>>

S2E_SubmitSecret ==
  /\ flow = "sol2evm" /\ pc = "submit"
  /\ SubmitStep(FALSE)
  /\ UNCHANGED <<reqVars, orderVars, outVars>>

\* Mutant: the counter is not incremented.
S2E_NextAttempt_NoIncrement ==
  /\ attempts' = attempts
  /\ pc' = "status" /\ UNCHANGED exitCode

\* attempts++ and the loop test; past it the script logs the timeout and ends.
S2E_NextAttempt ==
  /\ attempts' = attempts + 1
  /\ IF attempts + 1 < maxAttempts
       THEN pc' = "status" /\ UNCHANGED exitCode
       ELSE pc' = "done" /\ exitCode' = 0

S2E_Wait ==
  /\ flow = "sol2evm" /\ pc = "wait"
  /\ WaitCall(pollInterval)
  /\ S2E_NextAttempt
  /\ UNCHANGED <<reqVars, orderVars, elapsed, resp, swapError, quoteCalls, svcCalls>>

S2E_CatchWait ==
  /\ flow = "sol2evm" /\ pc = "catch"
  /\ WaitCall(pollInterval)
  /\ S2E_NextAttempt
  /\ UNCHANGED <<reqVars, orderVars, elapsed, resp, swapError, quoteCalls, svcCalls>>


\* ----------------------------------------- POST /api/fusion/swap/execute
\* res.status(code).json({success, ...}); finalStatus is the monitoring result
\* carried by a successful executeSwap.
Respond(code, success, final) ==
  resp' = Append(resp, [status |-> code, success |-> success, finalStatus |-> final])

\* Mutant: receiverAddress is not checked.
ExecuteBodyInvalid_SkipReceiver(b) == \E f \in QuoteFields : Falsy(b[f])

\* The validation `if` of the /swap/execute route.
ExecuteBodyInvalid(b) == \E f \in SwapFields : Falsy(b[f])

\* Mutant: walletAddress is not checked.
QuoteBodyInvalid_SkipWallet(b) == \E f \in QuoteFields \ {"walletAddress"} : Falsy(b[f])

\* The validation `if` of the /quote route.
QuoteBodyInvalid(b) == \E f \in QuoteFields : Falsy(b[f])

\* The status Express sends for res.json(result) when no status was set.
DefaultStatus == 200

\* error.message of what an SDK call threw.
SdkError == "sdk error"

\* The message getSDKWithSigner throws.
SignerError == "TEST_PRIVATE_KEY and INCH_API_KEY required for order submission"

\* What the submitOrder catch rethrows: the relayer's response data wrapped
\* in "API Error: ...", or the error as it came.
SubmitErrors == {"API Error: response data", SdkError}

\* The `success` of the body sent for executeSwap's result: /swap/execute
\* sends the result itself, /swap/test-eth-to-solana wraps it in
\* {success: true, data: result}.
RouteSuccess(success) == IF flow = "execute" THEN success ELSE TRUE

\* executeSwap's outer catch returns {success: false, ...} and the route
\* passes it to res.json.
SwapFailed ==
  /\ Respond(DefaultStatus, RouteSuccess(FALSE), "none")
  /\ pc' = "done"

\* monitorAndCompleteSwap returned `final`; executeSwap returns
\* {success: true, finalStatus} and the route passes it to res.json.
SwapReturned(final) ==
  /\ Respond(DefaultStatus, RouteSuccess(TRUE), final)
  /\ UNCHANGED swapError
  /\ pc' = "done"

\* Mutant: the 400 is sent without `return`, so the handler goes on.
X_Validate_NoReturn ==
  /\ flow = "execute" /\ pc = "validate"
  /\ ev' = NoEv
  /\ IF ExecuteBodyInvalid(body)
       THEN Respond(400, FALSE, "none")
       ELSE UNCHANGED resp
  /\ pc' = "quote" /\ svcCalls' = svcCalls + 1
  /\ paramsPreset' = RoutePreset(preset)
  /\ UNCHANGED <<reqVars, secretsCount, secrets, secretHashes, hashLock, orderHash,
                 orderFailed, txSent, recommendedPreset, orderPreset, loopVars, histVars,
                 swapError, exitCode, quoteCalls>>

\* POST /api/fusion/swap/execute up to the executeSwap call.
X_Validate ==
  /\ flow = "execute" /\ pc = "validate"
  /\ ev' = NoEv
  /\ IF ExecuteBodyInvalid(body)
       THEN /\ Respond(400, FALSE, "none") /\ pc' = "done"
            /\ UNCHANGED <<svcCalls, swapError, paramsPreset>>
       ELSE /\ pc' = "quote" /\ svcCalls' = svcCalls + 1
            /\ paramsPreset' = RoutePreset(preset)
            /\ UNCHANGED <<resp, swapError>>
  /\ UNCHANGED <<reqVars, secretsCount, secrets, secretHashes, hashLock, orderHash,
                 orderFailed, txSent, recommendedPreset, orderPreset, loopVars, histVars,
                 exitCode, quoteCalls>>

\* POST /api/fusion/swap/test-eth-to-solana up to the executeSwap call, with
\* its fixed route and preset 'fast'.
T_Validate ==
  /\ flow = "testEthToSolana" /\ pc = "validate"
  /\ ev' = NoEv
  /\ IF Falsy(body["solanaReceiver"])
       THEN /\ Respond(400, FALSE, "none") /\ pc' = "done"
            /\ UNCHANGED <<svcCalls, swapError, paramsPreset>>
       ELSE /\ pc' = "quote" /\ svcCalls' = svcCalls + 1
            /\ paramsPreset' = "fast"
            /\ UNCHANGED <<resp, swapError>>
  /\ UNCHANGED <<reqVars, secretsCount, secrets, secretHashes, hashLock, orderHash,
                 orderFailed, txSent, recommendedPreset, orderPreset, loopVars, histVars,
                 exitCode, quoteCalls>>

\* executeSwap, step 1.
X_GetQuote ==
  /\ flow \in SwapFlows /\ pc = "quote"
  /\ quoteCalls' = quoteCalls + 1
  /\ \E ok \in BOOLEAN :
       /\ ev' = Call("getQuote", ok)
       /\ IF ok
            THEN /\ \E n \in 1..MaxSecrets : secretsCount' = n
                 /\ \E rec \in Presets : recommendedPreset' = rec
                 /\ pc' = "signer"
                 /\ UNCHANGED <<resp, swapError>>
            ELSE /\ SwapFailed /\ swapError' = SdkError
                 /\ UNCHANGED <<secretsCount, recommendedPreset>>
  /\ UNCHANGED <<reqVars, secrets, secretHashes, hashLock, orderHash, orderFailed, txSent,
                 paramsPreset, orderPreset, loopVars, histVars, exitCode, svcCalls>>

\* Mutant: only the API key is looked at.
SignerConfigured_ApiKeyOnly(e) == e["INCH_API_KEY"]

\* getSDKWithSigner throws unless both variables are set.
SignerConfigured(e) == e["TEST_PRIVATE_KEY"] /\ e["INCH_API_KEY"]

\* executeSwap, step 2.
X_GetSigner ==
  /\ flow \in SwapFlows /\ pc = "signer"
  /\ ev' = NoEv
  /\ IF SignerConfigured(env)
       THEN pc' = "submitOrder" /\ UNCHANGED <<resp, swapError>>
       ELSE SwapFailed /\ swapError' = SignerError
  /\ UNCHANGED <<reqVars, orderVars, loopVars, histVars, exitCode, quoteCalls, svcCalls>>

\* executeSwap, steps 3 to 5 and the submitOrder call; when it returns,
\* monitorAndCompleteSwap starts its clock.
X_SubmitOrder ==
  /\ flow \in SwapFlows /\ pc = "submitOrder"
  /\ \E secs \in generateSecrets(secretsCount), ok \in BOOLEAN :
       /\ secrets' = secs
       /\ secretHashes' = HashAll(secs)
       /\ hashLock' = executeSwapHashLock(secs)
       /\ orderPreset' = recommendedPreset
       /\ ev' = Call("submitOrder", ok)
       /\ IF ok
            THEN /\ orderHash' = "0xorder" /\ pc' = "status"
                 /\ UNCHANGED <<orderFailed, resp, swapError>>
            ELSE /\ orderFailed' = TRUE /\ SwapFailed
                 /\ \E msg \in SubmitErrors : swapError' = msg
                 /\ UNCHANGED orderHash
  /\ UNCHANGED <<reqVars, secretsCount, txSent, paramsPreset, recommendedPreset, loopVars,
                 histVars, exitCode, quoteCalls, svcCalls>>

\* ------------------------------------ FusionService.monitorAndCompleteSwap
X_GetOrderStatus ==
  /\ flow \in SwapFlows /\ pc = "status" /\ polls < MaxPolls
  /\ \E ok \in BOOLEAN, st \in Statuses :
       /\ StatusCall(ok, st)
       /\ CASE ~ok -> pc' = "catch" /\ UNCHANGED <<resp, swapError>>
            [] ok /\ st = "executed" -> SwapReturned("completed")
            [] OTHER -> pc' = "fills" /\ UNCHANGED <<resp, swapError>>
  /\ UNCHANGED <<reqVars, orderVars, alreadyShared, fills, idxes, cursor, attempts,
                 elapsed, succCount, exitCode, quoteCalls, svcCalls>>

X_GetReadyFills ==
  /\ flow \in SwapFlows /\ pc = "fills"
  /\ \E r \in ReadyFillsResponses :
       /\ FillsCall(r)
       /\ CASE r.kind = "fills" -> StartWalk(r.fills)
            [] r.kind = "nofills" -> pc' = "wait" /\ UNCHANGED <<fills, idxes, cursor>>
            [] OTHER -> pc' = "catch" /\ UNCHANGED <<fills, idxes, cursor>>
  /\ UNCHANGED <<reqVars, orderVars, alreadyShared, attempts, elapsed, polls, outVars>>

X_SubmitSecret ==
  /\ flow \in SwapFlows /\ pc = "submit"
  /\ SubmitStep(TRUE)
  /\ UNCHANGED <<reqVars, orderVars, outVars>>

\* The backend's wait between polls.
backendPollMs == 5000

\* What one round can add to Date.now() beyond the timer: nothing, or an SDK
\* call that hung for the whole budget.
Latencies == {0, maxWaitTime}

\* The loop test `Date.now() - startTime < maxWaitTime`; past it the loop
\* throws, monitorAndCompleteSwap returns {status: 'failed'}.
X_NextRound ==
  \E late \in Latencies :
    LET e == Min(elapsed + backendPollMs + late, maxWaitTime)
    IN /\ elapsed' = e
       /\ IF e < maxWaitTime
            THEN pc' = "status" /\ UNCHANGED <<resp, swapError>>
            ELSE SwapReturned("failed")

X_Wait ==
  /\ flow \in SwapFlows /\ pc = "wait"
  /\ WaitCall(backendPollMs)
  /\ X_NextRound
  /\ UNCHANGED <<reqVars, orderVars, attempts, exitCode, quoteCalls, svcCalls>>

X_CatchWait ==
  /\ flow \in SwapFlows /\ pc = "catch"
  /\ WaitCall(backendPollMs)
  /\ X_NextRound
  /\ UNCHANGED <<reqVars, orderVars, attempts, exitCode, quoteCalls, svcCalls>>

\* ------------------------------------------------ POST /api/fusion/quote
Q_Validate ==
  /\ flow = "quote" /\ pc = "validate"
  /\ ev' = NoEv
  /\ IF QuoteBodyInvalid(body)
       THEN /\ Respond(400, FALSE, "none") /\ pc' = "done"
            /\ UNCHANGED <<svcCalls, swapError>>
       ELSE /\ pc' = "getQuote" /\ svcCalls' = svcCalls + 1
            /\ UNCHANGED <<resp, swapError>>
  /\ UNCHANGED <<reqVars, orderVars, loopVars, histVars, exitCode, quoteCalls>>

\* FusionService.getQuote: the SDK's quote shaped into {success: true, ...},
\* or a rethrow that the route's catch turns into a 500.
Q_GetQuote ==
  /\ flow = "quote" /\ pc = "getQuote"
  /\ quoteCalls' = quoteCalls + 1
  /\ \E ok \in BOOLEAN :
       /\ ev' = Call("getQuote", ok)
       /\ IF ok THEN Respond(DefaultStatus, TRUE, "none")
                ELSE Respond(500, FALSE, "none")
  /\ UNCHANGED swapError
  /\ pc' = "done"
  /\ UNCHANGED <<reqVars, orderVars, loopVars, histVars, exitCode, svcCalls>>

\* --------------------------------------- SecretManager.createSecretData
SM_CreateSecretData ==
  /\ flow = "secretData" /\ pc = "call"
  /\ \E n \in 1..MaxSecrets :
       \E secs \in generateSecrets(n) :
         LET d == createSecretData(secs)
         IN /\ secretsCount' = n
            /\ secrets' = d.secrets
            /\ secretHashes' = d.secretHashes
            /\ hashLock' = d.hashLock
  /\ pc' = "done"
  /\ ev' = NoEv
  /\ UNCHANGED <<reqVars, orderHash, orderFailed, txSent, presetVars, loopVars, histVars, outVars>>

\* ------------------------------------------------------------ the system
Next ==
  \/ S_CheckEnv
  \/ S_InitializeSDK
  \/ S_GetQuote
  \/ E2S_CreateAndSubmitOrder
  \/ E2S_GetOrderStatus
  \/ E2S_GetReadyFills
  \/ E2S_SubmitSecret
  \/ E2S_Wait
  \/ E2S_CatchWait
  \/ S2E_AnnounceOrder
  \/ S2E_SendTransaction
  \/ S2E_InitialWait
  \/ S2E_GetOrderStatus
  \/ S2E_GetReadyFills
  \/ S2E_SubmitSecret
  \/ S2E_Wait
  \/ S2E_CatchWait
  \/ X_Validate
  \/ T_Validate
  \/ X_GetQuote
  \/ X_GetSigner
  \/ X_SubmitOrder
  \/ X_GetOrderStatus
  \/ X_GetReadyFills
  \/ X_SubmitSecret
  \/ X_Wait
  \/ X_CatchWait
  \/ Q_Validate
  \/ Q_GetQuote
  \/ SM_CreateSecretData

Spec == Init /\ [][Next]_vars

\* The Solana->EVM script alone, its loop running to maxAttempts.
InitLong == Init /\ flow = "sol2evm"

NextLong ==
  \/ S_CheckEnv
  \/ S_InitializeSDK
  \/ S_GetQuote
  \/ S2E_AnnounceOrder
  \/ S2E_SendTransaction
  \/ S2E_InitialWait
  \/ S2E_PollStatus
  \/ S2E_GetReadyFills
  \/ S2E_SubmitSecret
  \/ S2E_Wait
  \/ S2E_CatchWait

SpecLong == InitLong /\ [][NextLong]_vars

TypeOK ==
  /\ flow \in Flows
  /\ secretsCount \in 0..MaxSecrets
  /\ Len(secrets) \in {0, secretsCount}
  /\ alreadyShared \subseteq ReadyIdx
  /\ cursor \in 1..(MaxFills + 1)
  /\ polls \in 0..maxAttempts
  /\ waits \in 0..2
  /\ gap \in -1..2
  /\ exitCode \in {-1, 0, 1}
  /\ Len(resp) <= 2


\* ================================================================ claims
MonitorCalls == {"getOrderStatus", "getReadyToAcceptSecretFills", "submitSecret"}

\* C1: in every monitoring loop submitSecret succeeds at most once per fill
\* index of an order, whatever the relayer keeps reporting.
C1_AtMostOneSuccessPerIndex == \A i \in ReadyIdx : succCount[i] <= 1

\* An index that was already submitted is reported again and passed over.
C1_Witness ==
  /\ pc \in {"submit", "wait"} /\ cursor > 1 /\ ev.op = "none"
  /\ idxes[cursor - 1] \in alreadyShared
  /\ succCount[idxes[cursor - 1]] = 1
  /\ polls >= 2

\* C2 (as claimed): once a getOrderStatus call returned a terminal status
\* (executed, expired or cancelled) the loop polls the relayer no more.
C2_StopsAtTerminal == ~polledAfterTerminal

\* C3: submitSecret is called for index i only in an iteration whose
\* ready-fills response listed i, so no index the relayer never reported is
\* ever revealed.
C3_SubmitOnlyReady ==
  /\ ev.op = "submitSecret" => ev.idx \in Range(fills)
  /\ \A i \in ReadyIdx : (succCount[i] > 0 \/ i \in alreadyShared) => i \in reported

C3_Witness == ev.op = "submitSecret" /\ ev.ok /\ Len(fills) = 2 /\ ev.idx = fills[2]

\* C4: every status poll, ready-fills poll and submitSecret happens after the
\* relayer returned an order hash, and none happens once submission failed.
C4_NoRevealBeforeAccepted ==
  /\ ev.op \in MonitorCalls => (orderHash # "none" /\ ~orderFailed)
  /\ orderFailed => (polls = 0 /\ alreadyShared = {} /\ reported = {})

C4_Witness == ev.op = "submitSecret" /\ ev.ok /\ orderHash = "0xorder"

\* C5: once the order is built there are exactly secretsCount secrets and as
\* many hashes, the i-th hash is hashSecret of the i-th secret, and the secret
\* passed to submitSecret for fill index i is the i-th secret.
C5_SecretsAndHashes ==
  /\ hashLock.kind # "none" =>
       /\ Len(secrets) = secretsCount
       /\ Len(secretHashes) = secretsCount
       /\ \A i \in 1..secretsCount : secretHashes[i] = <<"keccak256", secrets[i]>>
  /\ (ev.op = "submitSecret" /\ ev.idx < secretsCount) => ev.secret = secrets[ev.idx + 1]

C5_Witness ==
  /\ ev.op = "submitSecret" /\ ev.ok /\ ev.idx = 1
  /\ secretsCount = 2 /\ secrets[1] # secrets[2]

\* C6: the hash-lock depends only on the number of secrets: the single-fill
\* lock of the one secret for N = 1, the multi-fill lock over the Merkle
\* leaves of all N secrets for N > 1, in every place that builds one.
C6_HashLockSelection ==
  hashLock.kind # "none" =>
    IF Len(secrets) = 1
      THEN hashLock.kind = "single" /\ hashLock.of = <<hashSecret(secrets[1])>>
      ELSE /\ hashLock.kind = "multi"
           /\ Len(hashLock.of) = Len(secrets)
           /\ \A i \in 1..Len(secrets) :
                hashLock.of[i] = <<"leaf", i - 1, hashSecret(secrets[i])>>

C6_Witness == flow = "execute" /\ hashLock.kind = "multi" /\ Len(secrets) = 2

\* C7: between two consecutive getOrderStatus calls exactly one wait happens,
\* and every wait lasts 5000 ms.
C7_OneWaitBetweenPolls ==
  /\ ev.op = "getOrderStatus" => (IF polls = 1 THEN gap = -1 ELSE gap = 1)
  /\ ev.op = "wait" => ev.ms = 5000

\* A second poll, one wait after the first, when no fill was reported yet.
C7_Witness == ev.op = "getOrderStatus" /\ polls = 2 /\ gap = 1 /\ reported = {}

\* C8: /quote answers 400 with success:false and no SDK call exactly when one
\* of the six fields is missing or falsy; otherwise FusionService.getQuote is
\* called once.
C8_QuoteValidation ==
  LET missing == \E f \in {"srcChainId", "dstChainId", "srcTokenAddress",
                           "dstTokenAddress", "amount", "walletAddress"} :
                    body[f] \in {"undefined", "empty"}
  IN flow = "quote" =>
       /\ pc = "done" => Len(resp) = 1 /\ (resp[1].status = 400 <=> missing)
       /\ missing => quoteCalls = 0 /\ svcCalls = 0 /\ \A k \in DOMAIN resp : ~resp[k].success
       /\ (~missing /\ pc # "validate") => svcCalls = 1 /\ quoteCalls <= 1

C8_Witness ==
  /\ flow = "quote" /\ pc = "done" /\ resp[1].status = 400
  /\ body["walletAddress"] = "empty"
  /\ \A f \in QuoteFields \ {"walletAddress"} : body[f] = "value"

\* C9: /swap/execute answers 400 with success:false whenever one of the seven
\* fields is missing or falsy, and then fetches no quote, submits no order
\* and generates or reveals no secret.
C9_ExecuteValidation ==
  LET missing == \E f \in {"srcChainId", "dstChainId", "srcTokenAddress",
                           "dstTokenAddress", "amount", "walletAddress",
                           "receiverAddress"} :
                    body[f] \in {"undefined", "empty"}
  IN (flow = "execute" /\ missing) =>
       /\ pc = "done" => resp = <<[status |-> 400, success |-> FALSE, finalStatus |-> "none"]>>
       /\ quoteCalls = 0 /\ svcCalls = 0
       /\ orderHash = "none" /\ secrets = <<>> /\ ev.op = "none"

C9_Witness ==
  /\ flow = "execute" /\ pc = "done" /\ Len(resp) = 1 /\ resp[1].status = 400
  /\ body["receiverAddress"] = "undefined"
  /\ \A f \in QuoteFields : body[f] = "value"

\* C10 (as claimed): when executeSwap fails before the relayer accepted an
\* order (quote fetch, signer configuration, order submission), the route
\* answers 500 with success:false.
C10_FailureIs500 ==
  (flow = "execute" /\ pc = "done" /\ svcCalls = 1 /\ orderHash = "none") =>
    (Len(resp) = 1 /\ resp[1].status = 500 /\ ~resp[1].success)

\* C11: in both scripts, when one of the four required environment variables
\* is unset or empty the process exits with code 1 at the check itself: the
\* SDK is never imported and no quote, order or secret call is made.
C11_MissingEnvExits ==
  LET required == IF flow = "evm2sol"
                    THEN {"PRIVATE_KEY", "MAKER_ADDRESS", "RECEIVER_ADDRESS",
                          "DEV_PORTAL_API_KEY"}
                    ELSE {"SOLANA_PRIVATE_KEY", "SOLANA_MAKER_ADDRESS",
                          "ETH_RECEIVER_ADDRESS", "DEV_PORTAL_API_KEY"}
  IN (flow \in Scripts /\ \E k \in required : ~env[k]) =>
       /\ pc \in {"env", "done"}
       /\ pc = "done" => exitCode = 1
       /\ ev.op = "none" /\ quoteCalls = 0
       /\ orderHash = "none" /\ secrets = <<>>
       /\ polls = 0 /\ alreadyShared = {}

\* Only the API key is missing and the Solana->EVM script has exited.
C11_Witness ==
  /\ flow = "sol2evm" /\ pc = "done" /\ exitCode = 1
  /\ ~env["DEV_PORTAL_API_KEY"]
  /\ \A k \in ScriptEnvVars(flow) \ {"DEV_PORTAL_API_KEY"} : env[k]

\* C12 (as claimed): when TEST_PRIVATE_KEY or INCH_API_KEY is unset,
\* executeSwap submits no order, reveals no secret and returns success:false
\* carrying the 'TEST_PRIVATE_KEY and INCH_API_KEY required for order
\* submission' error.
C12_SignerErrorReturned ==
  (flow = "execute" /\ svcCalls = 1
     /\ (~env["TEST_PRIVATE_KEY"] \/ ~env["INCH_API_KEY"])) =>
    /\ pc \in {"quote", "signer", "done"}
    /\ orderHash = "none" /\ ev.op \notin {"submitOrder", "submitSecret"}
    /\ alreadyShared = {}
    /\ pc = "done" =>
         /\ Len(resp) = 1 /\ ~resp[1].success
         /\ swapError = "TEST_PRIVATE_KEY and INCH_API_KEY required for order submission"

\* C12 (amended): when TEST_PRIVATE_KEY or INCH_API_KEY is unset, executeSwap
\* submits no order, reveals no secret and returns success:false; the error
\* it carries is the signer message when the quote fetch succeeded, and the
\* quote fetch's own error when it did not, because the quote is fetched
\* before the signer is looked up.
C12_NoOrderWithoutSigner ==
  (flow = "execute" /\ svcCalls = 1
     /\ (~env["TEST_PRIVATE_KEY"] \/ ~env["INCH_API_KEY"])) =>
    /\ pc \in {"quote", "signer", "done"}
    /\ orderHash = "none" /\ ev.op \notin {"submitOrder", "submitSecret"}
    /\ alreadyShared = {}
    /\ pc = "done" =>
         /\ Len(resp) = 1 /\ ~resp[1].success
         /\ swapError =
              (IF secretsCount > 0
                 THEN "TEST_PRIVATE_KEY and INCH_API_KEY required for order submission"
                 ELSE "sdk error")

\* The quote came back and the signer lookup threw.
C12_Witness ==
  /\ flow = "execute" /\ pc = "done" /\ ~env["TEST_PRIVATE_KEY"]
  /\ quoteCalls = 1 /\ secretsCount > 0
  /\ swapError = SignerError

\* C13: an index is in alreadyShared exactly when a submitSecret for it
\* returned; a failed submitSecret leaves it out, and whenever the walk
\* reaches an index that is listed, not recorded and has a secret, submitSecret
\* is called for it again, and it is recorded exactly if that call returns.
C13_RecordedOnlyOnSuccess ==
  /\ [](alreadyShared = {i \in ReadyIdx : succCount[i] >= 1})
  /\ []((ev.op = "submitSecret" /\ ~ev.ok) => ev.idx \notin alreadyShared)
  /\ [][(pc = "submit" /\ idxes[cursor] \notin alreadyShared
           /\ (flow \in SwapFlows => idxes[cursor] < secretsCount))
         => (ev'.op = "submitSecret" /\ ev'.idx = idxes[cursor]
               /\ (ev'.ok <=> idxes[cursor] \in alreadyShared'))]_vars

\* The one listed index failed in the first poll and is revealed in the second.
C13_Witness ==
  /\ ev.op = "submitSecret" /\ ev.ok /\ ev.idx \in failed
  /\ polls = 2 /\ Len(idxes) = 1

\* C14: a getOrderStatus that returned 'executed' is the last thing any of
\* the three loops does: the loop has returned and no step follows.
C14_ExecutedEndsLoop ==
  /\ []((ev.op = "getOrderStatus" /\ ev.ok /\ ev.status = "executed") => pc = "done")
  /\ [][~(ev.op = "getOrderStatus" /\ ev.ok /\ ev.status = "executed")]_vars

\* 'executed' arrives on the second poll, after a secret was revealed.
C14_Witness ==
  /\ ev.op = "getOrderStatus" /\ ev.status = "executed" /\ pc = "done"
  /\ polls = 2 /\ alreadyShared # {}

\* C15: in the Solana->EVM script the poll that reports 'expired' or
\* 'cancelled' is the last call of the loop: no ready-fills query and no
\* submitSecret follows it.
C15_NoRevealAfterExpiry ==
  (flow = "sol2evm" /\ sawTerminal) =>
    /\ pc = "done"
    /\ ev.op = "getOrderStatus" /\ ev.status \in {"executed", "expired", "cancelled"}
    /\ ~polledAfterTerminal

\* The order expired while a reported fill was still waiting for its secret.
C15_Witness ==
  /\ flow = "sol2evm" /\ pc = "done" /\ ev.status = "expired"
  /\ reported \ alreadyShared # {}

\* What is left of the Solana->EVM run: the iterations still allowed, each
\* worth more than the steps one iteration can take, plus the steps left in
\* the current one.
IterationSteps == MaxFills + 5

StepsLeft ==
  CASE pc = "done" -> 0
    [] pc = "env" -> (120 + 1) * IterationSteps + 6
    [] pc = "initSDK" -> (120 + 1) * IterationSteps + 5
    [] pc = "quote" -> (120 + 1) * IterationSteps + 4
    [] pc = "create" -> (120 + 1) * IterationSteps + 3
    [] pc = "sendTx" -> (120 + 1) * IterationSteps + 2
    [] pc = "initialWait" -> (120 + 1) * IterationSteps + 1
    [] pc = "status" -> (120 - attempts) * IterationSteps + IterationSteps - 1
    [] pc = "fills" -> (120 - attempts) * IterationSteps + IterationSteps - 2
    [] pc = "submit" -> (120 - attempts) * IterationSteps + Len(idxes) - cursor + 2
    [] OTHER -> (120 - attempts) * IterationSteps + 1

\* C16: in the Solana->EVM script every iteration that does not return adds
\* exactly one to attempts, whether it ended in the wait or in the catch, so
\* getOrderStatus is called at most 120 times, every step brings the end
\* nearer, and the script never stops short of its end.
C16_AttemptsBoundTheLoop ==
  /\ [](polls <= 120 /\ attempts <= 120)
  /\ [](pc = "status" => (attempts = polls /\ attempts < 120))
  /\ [](pc \in {"fills", "submit", "wait", "catch"} => attempts = polls - 1)
  /\ [](attempts = 120 => pc = "done")
  /\ [][(pc \in {"wait", "catch"}) => (attempts' = attempts + 1)]_vars
  /\ [][StepsLeft' < StepsLeft]_vars
  /\ [](pc = "done" \/ ENABLED NextLong)

\* The loop ran out of attempts, its last iteration having failed in the
\* fills query.
C16_Witness ==
  /\ flow = "sol2evm" /\ pc = "done" /\ attempts = 120 /\ polls = 120
  /\ fills = <<>> /\ reported # {}

\* C17: in both scripts a getOrderStatus that threw is followed, in the same
\* iteration, by the ready-fills query, and every listed index not yet
\* recorded gets its submitSecret call in that iteration.
C17_StatusErrorStillSubmits ==
  /\ []((flow \in Scripts /\ ev.op = "getOrderStatus" /\ ~ev.ok) => pc = "fills")
  /\ [][(flow \in Scripts /\ ev.op = "getOrderStatus" /\ ~ev.ok)
         => ev'.op = "getReadyToAcceptSecretFills"]_vars
  /\ [][(flow \in Scripts /\ lastStatus = "error" /\ pc = "submit"
           /\ idxes[cursor] \notin alreadyShared)
         => (ev'.op = "submitSecret" /\ ev'.idx = idxes[cursor])]_vars

\* A secret is revealed in an iteration whose status call threw.
C17_Witness ==
  /\ flow = "evm2sol" /\ lastStatus = "error"
  /\ ev.op = "submitSecret" /\ ev.ok /\ polls = 1

\* C18: a submitSecret that threw leaves the walk over the listed indexes
\* where it was: the walk goes on to the next listed index, in the listed
\* order, and calls submitSecret for it when it is an index of the order that
\* is not yet recorded.
C18_FailureDoesNotStopWalk ==
  /\ []((ev.op = "submitSecret" /\ ~ev.ok) =>
          /\ idxes = fills /\ ev.idx = idxes[cursor - 1]
          /\ pc = (IF cursor <= Len(idxes) THEN "submit" ELSE "wait"))
  /\ [][(pc = "submit" /\ ev.op = "submitSecret" /\ ~ev.ok
           /\ idxes[cursor] \notin alreadyShared /\ idxes[cursor] < secretsCount)
         => (ev'.op = "submitSecret" /\ ev'.idx = idxes[cursor]
               /\ cursor' = cursor + 1)]_vars

\* The first listed index failed and the second, a different one, was
\* revealed right after it.
C18_Witness ==
  /\ ev.op = "submitSecret" /\ ev.ok /\ cursor = 3
  /\ idxes[1] # idxes[2] /\ idxes[1] \in failed /\ idxes[1] \notin alreadyShared
  /\ polls = 1

\* C19 (as claimed): every submitSecret passes one of the order's N secrets,
\* and an index outside 0..N-1 is neither submitted nor recorded.
C19_OnlyOwnSecrets ==
  /\ ev.op = "submitSecret" =>
       /\ ev.idx \in 0..(secretsCount - 1)
       /\ ev.secret # "undefined"
       /\ ev.secret \in Range(secrets)
  /\ alreadyShared \subseteq 0..(secretsCount - 1)

\* C20: in the Solana->EVM script sendTransaction is called only after
\* announceOrder returned the order hash, the monitoring loop is entered only
\* after both returned, and when either threw the script exits with code 1
\* without a status poll, a ready-fills query or a submitSecret.
C20_AnnounceSendMonitor ==
  flow = "sol2evm" =>
    /\ (pc = "sendTx" \/ ev.op = "sendTransaction") => orderHash # "none"
    /\ (pc \in {"initialWait", "status", "fills", "submit", "wait", "catch"}
          \/ polls > 0 \/ ev.op \in MonitorCalls)
         => (orderHash # "none" /\ txSent /\ ~orderFailed)
    /\ orderFailed =>
         /\ pc = "done" /\ exitCode = 1
         /\ ev.op \in {"announceOrder", "sendTransaction"} /\ ~ev.ok
         /\ polls = 0 /\ reported = {} /\ alreadyShared = {} /\ waits = 0

\* The order was announced and the escrow transaction then failed.
C20_Witness ==
  /\ flow = "sol2evm" /\ orderFailed /\ orderHash # "none"
  /\ ev.op = "sendTransaction" /\ exitCode = 1

\* C21 (as claimed): the preset given to getPreset (which sizes the secrets)
\* and to createEvmOrder is the preset named in the request body, and 'fast'
\* when the body names none.
C21_OrderUsesRequestPreset ==
  (flow = "execute" /\ orderPreset # "none") =>
    orderPreset = (IF preset \in {"undefined", "empty"} THEN "fast" ELSE preset)

\* C22: a request to /quote, /swap/execute or /swap/test-eth-to-solana gets
\* one response and no more: none is sent while the handler runs, exactly one
\* has been sent when it is done, and once the relayer accepted an order the
\* response is there exactly when monitoring has ended, by an 'executed'
\* status or by the 10-minute timeout.
C22_ExactlyOneResponse ==
  flow \in {"quote", "execute", "testEthToSolana"} =>
    /\ Len(resp) <= 1
    /\ (pc = "done") <=> (Len(resp) = 1)
    /\ (flow # "quote" /\ orderHash # "none") =>
         ((Len(resp) = 1) <=>
            \/ (ev.op = "getOrderStatus" /\ ev.ok /\ ev.status = "executed")
            \/ elapsed >= 600000)
    /\ (flow # "quote" /\ Len(resp) = 1 /\ orderHash # "none") =>
         resp[1].finalStatus \in {"completed", "failed"}

\* The swap timed out after a secret was revealed, and was answered then.
C22_Witness ==
  /\ flow = "execute" /\ pc = "done" /\ Len(resp) = 1
  /\ resp[1].finalStatus = "failed" /\ alreadyShared # {}

====
